---- MODULE Spec2Model ----
(***************************************************************************)
(* The huff lexer (huff_lexer/src/lib.rs) as a state machine.              *)
(*                                                                         *)
(* A source text is a sequence of one-character strings; offsets are       *)
(* zero-based as in the Rust code, so the character at offset i is s[i+1]. *)
(* All characters of the model are single-byte, so the character count     *)
(* kept in span.end and the byte offsets used to slice agree.              *)
(*                                                                         *)
(* A panic of the Rust code (an out-of-range slice, an unwrap of a failed  *)
(* parse) is the value Panic where a string is expected and the result tag *)
(* "Panic" of a call; a panicked lexer takes no further step.              *)
(***************************************************************************)
EXTENDS Integers, Sequences, FiniteSets, TLC

VARIABLES source, chars, span, eof, eof_returned, result, out, panicked

vars == <<source, chars, span, eof, eof_returned, result, out, panicked>>

(***************************************************************************)
(* Bounds of the model: a source is the concatenation of at most MaxFrags  *)
(* fragments drawn from Frags.                                             *)
(***************************************************************************)
MaxFrags == 3

kw_macro == <<"m","a","c","r","o">>
kw_function == <<"f","u","n","c","t","i","o","n">>
kw_constant == <<"c","o","n","s","t","a","n","t">>
kw_takes == <<"t","a","k","e","s">>
kw_returns == <<"r","e","t","u","r","n","s">>
define_keyword == <<"#","d","e","f","i","n","e">>
include_keyword == <<"#","i","n","c","l","u","d","e">>
fsp == <<"F","R","E","E","_","S","T","O","R","A","G","E","_","P","O","I","N","T","E","R">>
closer == <<"*","/">>
opener == <<"/","*">>

line_opener == <<"/","/">>

Frags ==
  { kw_takes, kw_function, kw_macro, fsp,
    <<"#">>, SubSeq(define_keyword, 2, 7), SubSeq(include_keyword, 2, 8),
    <<":">>, <<" ">>, <<"\n">>, <<"/">>, line_opener, opener, closer, <<"(">>, <<")">>,
    <<"\"">>, <<"'">>, <<"\\">>, <<"\\", "\"">>, <<"1">>, <<"x">> }

RECURSIVE Concat(_)
Concat(fs) == IF fs = <<>> THEN <<>> ELSE Head(fs) \o Concat(Tail(fs))

FragSeqs == UNION { [1..n -> Frags] : n \in 0..MaxFrags }

Sources == { Concat(fs) : fs \in FragSeqs }

(***************************************************************************)
(* Character classes (char::is_alphabetic, is_alphanumeric,                *)
(* is_ascii_digit, is_ascii_whitespace) and the closures handed to         *)
(* dyn_consume, named by a tag.                                            *)
(***************************************************************************)
NoChar == ""

Panic == <<"PANIC">>

Lower == {"a","b","c","d","e","f","g","h","i","j","k","l","m",
          "n","o","p","q","r","s","t","u","v","w","x","y","z"}

Upper == {"A","B","C","D","E","F","G","H","I","J","K","L","M",
          "N","O","P","Q","R","S","T","U","V","W","X","Y","Z"}

is_alphabetic(c) == c \in Lower \cup Upper

is_ascii_digit(c) == c \in {"0","1","2","3","4","5","6","7","8","9"}

is_alphanumeric(c) == is_alphabetic(c) \/ is_ascii_digit(c)

is_ascii_whitespace(c) == c \in {" ", "\t", "\n", "\r", "\f"}

Filter(f, c) ==
  CASE f = "not_newline" -> c # "\n"
    [] f = "alphabetic" -> is_alphabetic(c)
    [] f = "alphabetic_" -> is_alphabetic(c) \/ c = "_"
    [] f = "alphanumeric_" -> is_alphanumeric(c) \/ c = "_"
    [] f = "ascii_digit" -> is_ascii_digit(c)
    [] f = "ascii_whitespace" -> is_ascii_whitespace(c)

(***************************************************************************)
(* Span (huff_utils): a half-open offset range; slicing the source by it   *)
(* panics when the range is not inside the text.                           *)
(***************************************************************************)
Span(a, b) == [start |-> a, end |-> b]

SpanEOF(s) == Span(Len(s), Len(s))

Index(s, a, b) == IF a <= b /\ b <= Len(s) THEN SubSeq(s, a + 1, b) ELSE Panic

(***************************************************************************)
(* Cursor primitives.  s is the source, c the number of characters the     *)
(* character iterator has yielded, sp the span.                            *)
(***************************************************************************)
peek(s, c) == IF c < Len(s) THEN s[c + 1] ELSE NoChar

nthpeek(s, c, n) == IF c + n < Len(s) THEN s[c + n + 1] ELSE NoChar

peeknchars(s, sp, n) ==
  IF sp.end + n > Len(s) THEN <<>> ELSE Index(s, sp.start, sp.end + n)

peekncharsfrom(s, n, from) == Index(s, from, from + n)

\* A faulty variant of try_look_back: the window read is dist characters long.
try_look_back_wide(s, sp, dist) ==
  IF sp.start >= dist THEN peekncharsfrom(s, dist, sp.start - dist) ELSE <<>>

try_look_back(s, sp, dist) ==
  IF sp.start >= dist THEN peekncharsfrom(s, dist - 1, sp.start - dist) ELSE <<>>

slice(s, sp) == Index(s, sp.start, sp.end)

\* The number of characters dyn_consume(f) consumes from iterator position c.
RECURSIVE dyn_consume(_, _, _)
dyn_consume(s, c, f) ==
  IF peek(s, c) # NoChar /\ Filter(f, peek(s, c))
  THEN 1 + dyn_consume(s, c + 1, f)
  ELSE 0

\* The number of characters seq_consume(word) consumes from iterator position
\* c with current_pos at cp; -1 when a window it reads panics.
RECURSIVE seq_loop(_, _, _, _)
seq_loop(s, c, cp, word) ==
  IF peek(s, c) = NoChar THEN 0
  ELSE LET peeked == peekncharsfrom(s, Len(word), cp)
       IN  IF peeked = Panic THEN -1
           ELSE IF word = peeked THEN 0
           ELSE LET r == seq_loop(s, c + 1, cp + 1, word)
                IN  IF r < 0 THEN -1 ELSE 1 + r

seq_consume(s, c, sp, word) == seq_loop(s, c, sp.start, word)

\* A faulty variant of Advance: the end moves on a consume that read nothing.
Advance_past(sp, n) == Span(sp.start, sp.end + n + 1)

\* The span after n characters were consumed (consume: span.end += 1 each).
Advance(sp, n) == Span(sp.start, sp.end + n)

\* A faulty variant of reset: the span's start is left where it was.
reset_keeps_start(sp) == sp

reset(sp) == Span(sp.end, sp.end)

(***************************************************************************)
(* What one arm of next() yields: the item returned (tag, kind, text,      *)
(* rspan) and the cursor it leaves (span, chars, and whether the arm set   *)
(* the eof flag itself).                                                   *)
(***************************************************************************)
Yield(tag, kind, text, rspan, sp, c, e) ==
  [tag |-> tag, kind |-> kind, text |-> text, rspan |-> rspan,
   span |-> sp, chars |-> c, eof |-> e]

Panicked(sp, c) == Yield("Panic", "Panic", <<>>, sp, sp, c, FALSE)

\* Token { kind, span: self.span }; text is the string the kind carries,
\* a panic while computing it unwinds out of next().
Token(kind, text, sp, c) ==
  IF text = Panic THEN Panicked(sp, c)
  ELSE Yield("Ok", kind, text, sp, sp, c, FALSE)

LexicalError(kind, text, rspan, sp, c, e) == Yield("Err", kind, text, rspan, sp, c, e)

\* A faulty variant of current_span: the span of the end of the text, always.
current_span_eof(s, sp, e) == SpanEOF(s)

current_span(s, sp, e) == IF e THEN SpanEOF(s) ELSE sp

\* A faulty variant of slash_arm: the line comment swallows the newline that ends it.
slash_arm_eats_newline(s, c, sp) ==
  LET ch2 == peek(s, c)
  IN  IF ch2 = "/"
      THEN LET m == 1 + dyn_consume(s, c + 1, "not_newline")
               n == IF peek(s, c + m) = "\n" THEN m + 1 ELSE m
               sp2 == Advance(sp, n)
           IN  Token("Comment", slice(s, sp2), sp2, c + n)
      ELSE IF ch2 = "*"
      THEN LET k == seq_consume(s, c + 1, Advance(sp, 1), closer)
               sp2 == Advance(sp, 1 + k)
           IN  IF k < 0 THEN Panicked(Advance(sp, 1), c + 1)
               ELSE Token("Comment", slice(s, sp2), sp2, c + 1 + k)
      ELSE Token("Div", <<>>, sp, c)

\* A faulty variant of slash_arm: only '//' opens a comment.
slash_arm_line_only(s, c, sp) ==
  LET ch2 == peek(s, c)
  IN  IF ch2 = "/"
      THEN LET n == 1 + dyn_consume(s, c + 1, "not_newline")
               sp2 == Advance(sp, n)
           IN  Token("Comment", slice(s, sp2), sp2, c + n)
      ELSE Token("Div", <<>>, sp, c)

\* '/' : line comment, block comment or Div.
slash_arm(s, c, sp) ==
  LET ch2 == peek(s, c)
  IN  IF ch2 = "/"
      THEN LET n == 1 + dyn_consume(s, c + 1, "not_newline")
               sp2 == Advance(sp, n)
           IN  Token("Comment", slice(s, sp2), sp2, c + n)
      ELSE IF ch2 = "*"
      THEN LET k == seq_consume(s, c + 1, Advance(sp, 1), closer)
               sp2 == Advance(sp, 1 + k)
           IN  IF k < 0 THEN Panicked(Advance(sp, 1), c + 1)
               ELSE Token("Comment", slice(s, sp2), sp2, c + 1 + k)
      ELSE Token("Div", <<>>, sp, c)

\* A faulty variant of hash_arm: the windows peeked are one character too long.
hash_arm_long_peek(s, c, sp, e) ==
  IF define_keyword = peeknchars(s, sp, Len(define_keyword))
  THEN LET n == dyn_consume(s, c, "alphabetic")
       IN  Token("Define", <<>>, Advance(sp, n), c + n)
  ELSE IF include_keyword = peeknchars(s, sp, Len(include_keyword))
  THEN LET n == dyn_consume(s, c, "alphabetic")
       IN  Token("Include", <<>>, Advance(sp, n), c + n)
  ELSE LexicalError("InvalidCharacter", <<"#">>, current_span(s, sp, e), sp, c, FALSE)

\* '#' : #define, #include, or an invalid character.
hash_arm(s, c, sp, e) ==
  IF define_keyword = peeknchars(s, sp, Len(define_keyword) - 1)
  THEN LET n == dyn_consume(s, c, "alphabetic")
       IN  Token("Define", <<>>, Advance(sp, n), c + n)
  ELSE IF include_keyword = peeknchars(s, sp, Len(include_keyword) - 1)
  THEN LET n == dyn_consume(s, c, "alphabetic")
       IN  Token("Include", <<>>, Advance(sp, n), c + n)
  ELSE LexicalError("InvalidCharacter", <<"#">>, current_span(s, sp, e), sp, c, FALSE)

\* The bare keywords, in the order the code tries them.
keys ==
  << [key |-> kw_macro, kind |-> "Macro"],
     [key |-> kw_function, kind |-> "Function"],
     [key |-> kw_constant, kind |-> "Constant"],
     [key |-> kw_takes, kind |-> "Takes"],
     [key |-> kw_returns, kind |-> "Returns"] >>

\* The index of the first key whose text is at the span's start, 0 for none.
RECURSIVE key_loop(_, _, _)
key_loop(s, sp, i) ==
  IF i > Len(keys) THEN 0
  ELSE IF keys[i].key = peeknchars(s, sp, Len(keys[i].key) - 1) THEN i
  ELSE key_loop(s, sp, i + 1)

\* active_key after the loop: the matched key, or the last one tried.
active_key(i) == IF i = 0 THEN keys[Len(keys)].key ELSE keys[i].key

function_keyword == keys[2].key

\* The two operands of the demotion test, in evaluation order.
look_back(s, sp) == try_look_back(s, sp, Len(function_keyword) + 1)

look_ahead(s, key) == peekncharsfrom(s, 1, Len(key))

\* An alphabetic character: keyword, FREE_STORAGE_POINTER or identifier.
alphabetic_arm(s, c, sp) ==
  LET i == key_loop(s, sp, 1)
      n1 == IF i = 0 THEN 0 ELSE dyn_consume(s, c, "alphabetic")
      sp1 == Advance(sp, n1)
      c1 == c + n1
      back == look_back(s, sp1)
      ahead == look_ahead(s, active_key(i))
      panics == back = Panic \/ (back # function_keyword /\ ahead = Panic)
      demote == back = function_keyword \/ ahead = <<":">>
      found_kind == IF demote THEN 0 ELSE i
      is_fsp == fsp = peeknchars(s, sp1, Len(fsp) - 1)
      n2 == dyn_consume(s, c1, "alphabetic_")
      n3 == IF peek(s, c1 + n2) = "(" THEN 1 ELSE 0
      n4 == IF peek(s, c1 + n2 + n3) = ")" THEN 1 ELSE 0
      nf == n2 + n3 + n4
      ni == dyn_consume(s, c1, "alphanumeric_")
  IN  IF panics THEN Panicked(sp1, c1)
      ELSE IF is_fsp THEN Token("FreeStoragePointer", <<>>, Advance(sp1, nf), c1 + nf)
      ELSE IF found_kind # 0 THEN Token(keys[found_kind].kind, <<>>, sp1, c1)
      ELSE Token("Ident", slice(s, Advance(sp1, ni)), Advance(sp1, ni), c1 + ni)

\* Single-character punctuation and operators.
punct_kind(ch) ==
  CASE ch = "=" -> "Assign"
    [] ch = "(" -> "OpenParen"
    [] ch = ")" -> "CloseParen"
    [] ch = "[" -> "OpenBracket"
    [] ch = "]" -> "CloseBracket"
    [] ch = "{" -> "OpenBrace"
    [] ch = "}" -> "CloseBrace"
    [] ch = "+" -> "Add"
    [] ch = "-" -> "Sub"
    [] ch = "*" -> "Mul"
    [] ch = "," -> "Comma"
    [] OTHER -> ""

punct_arm(ch, c, sp) == Token(punct_kind(ch), <<>>, sp, c)

(***************************************************************************)
(* str::parse::<usize>() on a 64-bit target: the value is kept as its      *)
(* decimal digits without leading zeros; Panic (the unwrap of an Err) for  *)
(* a non-digit, an empty string or a value above usize::MAX.               *)
(***************************************************************************)
usize_max == <<"1","8","4","4","6","7","4","4","0","7","3","7","0","9","5","5","1","6","1","5">>

digit_value(d) ==
  CASE d = "0" -> 0 [] d = "1" -> 1 [] d = "2" -> 2 [] d = "3" -> 3 [] d = "4" -> 4
    [] d = "5" -> 5 [] d = "6" -> 6 [] d = "7" -> 7 [] d = "8" -> 8 [] d = "9" -> 9

RECURSIVE strip_zeros(_)
strip_zeros(d) ==
  IF Len(d) > 1 /\ Head(d) = "0" THEN strip_zeros(Tail(d)) ELSE d

\* d > m for two digit strings of the same length.
RECURSIVE digits_above(_, _)
digits_above(d, m) ==
  IF d = <<>> THEN FALSE
  ELSE IF Head(d) # Head(m) THEN digit_value(Head(d)) > digit_value(Head(m))
  ELSE digits_above(Tail(d), Tail(m))

parse(str) ==
  IF str = Panic \/ str = <<>> \/ \E k \in 1..Len(str) : ~is_ascii_digit(str[k])
  THEN Panic
  ELSE LET d == strip_zeros(str)
       IN  IF Len(d) > Len(usize_max) \/ (Len(d) = Len(usize_max) /\ digits_above(d, usize_max))
           THEN Panic
           ELSE d

\* '0'..='9' : a run of ASCII digits.
num_arm(s, c, sp) ==
  LET n == dyn_consume(s, c, "ascii_digit")
      sp2 == Advance(sp, n)
  IN  Token("Num", parse(slice(s, sp2)), sp2, c + n)

\* ASCII whitespace: a run of it.
whitespace_arm(s, c, sp) ==
  LET n == dyn_consume(s, c, "ascii_whitespace")
  IN  Token("Whitespace", <<>>, Advance(sp, n), c + n)

\* A faulty variant of str_loop: a backslash escapes nothing.
RECURSIVE str_loop_no_escape(_, _, _)
str_loop_no_escape(s, c, q) ==
  LET p == peek(s, c)
  IN  IF p = NoChar THEN [chars |-> c, closed |-> FALSE]
      ELSE IF p = q THEN [chars |-> c + 1, closed |-> TRUE]
      ELSE str_loop_no_escape(s, c + 1, q)

\* The loop of a quoted literal opened by q: where the iterator stands when
\* the loop ends, and whether it ended at the closing quote.
RECURSIVE str_loop(_, _, _)
str_loop(s, c, q) ==
  LET p == peek(s, c)
  IN  IF p = NoChar THEN [chars |-> c, closed |-> FALSE]
      ELSE IF p = q THEN [chars |-> c + 1, closed |-> TRUE]
      ELSE IF p = "\\" /\ nthpeek(s, c, 1) \in {"\\", q} THEN str_loop(s, c + 2, q)
      ELSE str_loop(s, c + 1, q)

\* A faulty variant of str_arm: the unterminated literal does not set eof.
str_arm_keeps_eof(s, c, sp, q) ==
  LET l == str_loop(s, c, q)
      sp2 == Advance(sp, l.chars - c)
      str == slice(s, sp2)
  IN  IF l.closed
      THEN Token("Str", IF str = Panic THEN Panic ELSE Index(str, 1, Len(str) - 1), sp2, l.chars)
      ELSE LexicalError("UnexpectedEof", <<>>, sp2, sp2, l.chars, FALSE)

\* '"' or '\'' : a string literal, or UnexpectedEof.
str_arm(s, c, sp, q) ==
  LET l == str_loop(s, c, q)
      sp2 == Advance(sp, l.chars - c)
      str == slice(s, sp2)
  IN  IF l.closed
      THEN Token("Str", IF str = Panic THEN Panic ELSE Index(str, 1, Len(str) - 1), sp2, l.chars)
      ELSE LexicalError("UnexpectedEof", <<>>, sp2, sp2, l.chars, TRUE)

\* A faulty variant of invalid_arm: the error sets eof as the unterminated literal does.
invalid_arm_sets_eof(ch, c, sp) == LexicalError("InvalidCharacter", <<ch>>, sp, sp, c, TRUE)

\* Any other character.
invalid_arm(ch, c, sp) == LexicalError("InvalidCharacter", <<ch>>, sp, sp, c, FALSE)

(***************************************************************************)
(* The lexer as a state machine: Lexer::new, then one action per arm of    *)
(* Iterator::next.                                                         *)
(***************************************************************************)
Item(y) == [tag |-> y.tag, kind |-> y.kind, text |-> y.text, span |-> y.rspan]

Start == [tag |-> "Start", kind |-> "Start", text |-> <<>>, span |-> Span(0, 0)]

Init ==
  /\ source \in Sources
  /\ chars = 0
  /\ span = Span(0, 0)
  /\ eof = FALSE
  /\ eof_returned = FALSE
  /\ result = Start
  /\ out = <<>>
  /\ panicked = FALSE

\* The character next() consumes first, NoChar when none remains.
ch == peek(source, chars)

\* The iterator and the span once reset() and the first consume() have run.
c0 == chars + 1

sp0 == Advance(reset(span), 1)

\* A faulty variant of Return: a token is returned without looking whether a
\* character remains.
Return_unmarked(y) ==
  /\ span' = y.span
  /\ chars' = y.chars
  /\ panicked' = (y.tag = "Panic")
  /\ eof' = (eof \/ (y.tag # "Ok" /\ y.eof))
  /\ result' = Item(y)
  /\ out' = IF y.tag = "Panic" THEN out ELSE Append(out, Item(y))
  /\ UNCHANGED <<source, eof_returned>>

\* The tail of next() for an arm that consumed a character.
Return(y) ==
  /\ span' = y.span
  /\ chars' = y.chars
  /\ panicked' = (y.tag = "Panic")
  /\ eof' = IF y.tag = "Ok" THEN (eof \/ peek(source, y.chars) = NoChar) ELSE (eof \/ y.eof)
  /\ result' = Item(y)
  /\ out' = IF y.tag = "Panic" THEN out ELSE Append(out, Item(y))
  /\ UNCHANGED <<source, eof_returned>>

NextSlash == ~panicked /\ ch = "/" /\ Return(slash_arm(source, c0, sp0))

NextHash == ~panicked /\ ch = "#" /\ Return(hash_arm(source, c0, sp0, eof))

NextAlphabetic == ~panicked /\ is_alphabetic(ch) /\ Return(alphabetic_arm(source, c0, sp0))

NextPunct == ~panicked /\ punct_kind(ch) # "" /\ Return(punct_arm(ch, c0, sp0))

NextNum == ~panicked /\ is_ascii_digit(ch) /\ Return(num_arm(source, c0, sp0))

NextWhitespace == ~panicked /\ is_ascii_whitespace(ch) /\ Return(whitespace_arm(source, c0, sp0))

NextDoubleQuote == ~panicked /\ ch = "\"" /\ Return(str_arm(source, c0, sp0, "\""))

NextSingleQuote == ~panicked /\ ch = "'" /\ Return(str_arm(source, c0, sp0, "'"))

NextInvalid ==
  /\ ~panicked
  /\ ch \notin {NoChar, "/", "#", "\"", "'"}
  /\ ~is_alphabetic(ch) /\ punct_kind(ch) = "" /\ ~is_ascii_digit(ch) /\ ~is_ascii_whitespace(ch)
  /\ Return(invalid_arm(ch, c0, sp0))

\* A faulty variant of NextEof: eof_returned is not set.
NextEof_unmarked ==
  /\ ~panicked /\ ch = NoChar /\ ~eof_returned
  /\ span' = reset(span)
  /\ eof' = TRUE
  /\ result' = [tag |-> "Ok", kind |-> "Eof", text |-> <<>>, span |-> reset(span)]
  /\ out' = Append(out, result')
  /\ UNCHANGED <<source, chars, panicked, eof_returned>>

\* No character left and the Eof token not yet returned.
NextEof ==
  /\ ~panicked /\ ch = NoChar /\ ~eof_returned
  /\ span' = reset(span)
  /\ eof' = TRUE
  /\ eof_returned' = TRUE
  /\ result' = [tag |-> "Ok", kind |-> "Eof", text |-> <<>>, span |-> reset(span)]
  /\ out' = Append(out, result')
  /\ UNCHANGED <<source, chars, panicked>>

\* No character left and the Eof token already returned: None.
NextNone ==
  /\ ~panicked /\ ch = NoChar /\ eof_returned
  /\ span' = reset(span)
  /\ eof' = TRUE
  /\ result' = [tag |-> "None", kind |-> "None", text |-> <<>>, span |-> reset(span)]
  /\ UNCHANGED <<source, chars, eof_returned, out, panicked>>

Next ==
  \/ NextSlash
  \/ NextHash
  \/ NextAlphabetic
  \/ NextPunct
  \/ NextNum
  \/ NextWhitespace
  \/ NextDoubleQuote
  \/ NextSingleQuote
  \/ NextInvalid
  \/ NextEof
  \/ NextNone

Spec == Init /\ [][Next]_vars

\* next() can be called again: the process has not died of a panic.  (Every
\* action of Next has this guard, and one of them is enabled whenever it holds.)
Callable == ~panicked

(***************************************************************************)
(* Definitions the claims are stated with.                                 *)
(***************************************************************************)
\* The text w stands at offset p of s.
HasAt(s, p, w) == p + Len(w) <= Len(s) /\ SubSeq(s, p + 1, p + Len(w)) = w

Returned(kind) == \E i \in 1..Len(out) : out[i].kind = kind

\* C1: every call to next returns Some(Ok), Some(Err) or None; no call panics
\* on an out-of-range slice of the source.
C1_NextNeverPanics == result.tag \in {"Start", "Ok", "Err", "None"} /\ ~panicked

\* C2 (state part): the Eof token is in the results at most once, as the last
\* of them, with the empty span at the end of the text, and None is returned
\* only after it.
C2_EofLast ==
  /\ eof_returned <=> Returned("Eof")
  /\ \A i \in 1..Len(out) :
       out[i].kind = "Eof" =>
         /\ i = Len(out)
         /\ chars = Len(source)
         /\ out[i].span = Span(Len(source), Len(source))
  /\ result.tag = "None" => eof_returned

\* C2 (step part): the first call with no character left returns Eof, no call
\* with a character left does, and every call after the Eof token returns None.
C2_EofStep ==
  /\ (ch = NoChar /\ ~eof_returned) =>
       (result'.tag = "Ok" /\ result'.kind = "Eof" /\ result'.span = Span(chars, chars))
  /\ ch # NoChar => result'.kind # "Eof"
  /\ eof_returned => (result'.tag = "None" /\ out' = out)

\* C2: the Eof token is returned exactly once, on the first call made when no
\* characters remain, with an empty span at the current position; every call
\* after it returns None.
C2_EofExactlyOnce == []C2_EofLast /\ [][C2_EofStep]_vars

\* C2 witness: None was returned after the Eof token of a non-empty text.
C2_Witness == result.tag = "None" /\ Len(out) > 1 /\ out[Len(out)].kind = "Eof"

\* C3: for a text that does not end in an unterminated literal, repeated calls
\* of next eventually return the Eof token: until it has been returned, another
\* call can be made and returns.
C3_EofEventually == eof_returned \/ Returned("UnexpectedEof") \/ Callable

\* The slices of the source that the spans of the tokens in o cover, in order.
RECURSIVE TokenSlices(_, _)
TokenSlices(s, o) ==
  IF o = <<>> THEN <<>>
  ELSE (IF Head(o).tag = "Ok" THEN SubSeq(s, Head(o).span.start + 1, Head(o).span.end) ELSE <<>>)
       \o TokenSlices(s, Tail(o))

NoError == \A i \in 1..Len(out) : out[i].tag = "Ok"

LastEnd == IF out = <<>> THEN 0 ELSE out[Len(out)].span.end

\* C4 as stated: for any text, once the Eof token is returned the slices of
\* the tokens produced, concatenated in order, are the whole source text.
C4_TokensRebuildSource == Returned("Eof") => TokenSlices(source, out) = source

\* C4 as amended: while no call has returned an error, the slices of the
\* tokens produced so far concatenate to the source text up to the end of the
\* last token, and that is the whole text once the Eof token is returned.
C4_TokensRebuildWithoutError ==
  NoError =>
    /\ TokenSlices(source, out) = SubSeq(source, 1, LastEnd)
    /\ Returned("Eof") => LastEnd = Len(source)

\* C4 witness: a text of several tokens lexed to its Eof token without error.
C4_Witness == NoError /\ Returned("Eof") /\ Len(out) >= 4

\* Offset j of s is the second character of an escape pair of a literal
\* opened by q at offset p: a backslash followed by a backslash or by q, the
\* pairs read left to right from the character after the opening quote.
RECURSIVE SecondOfPair(_, _, _, _)
SecondOfPair(s, p, q, j) ==
  /\ j - 1 > p
  /\ s[j] = "\\"
  /\ s[j + 1] \in {"\\", q}
  /\ ~SecondOfPair(s, p, q, j - 1)

\* The literal opened by q at offset p of s is never closed.
Unclosed(s, p, q) ==
  \A j \in (p + 1)..(Len(s) - 1) : s[j + 1] = q => SecondOfPair(s, p, q, j)

\* C5 (state part): an UnexpectedEof error is the last result or is followed
\* by the Eof token alone; it leaves no character to read and eof set.
C5_UnexpectedEofLast ==
  \A i \in 1..Len(out) :
    out[i].kind = "UnexpectedEof" =>
      /\ out[i].tag = "Err"
      /\ i >= Len(out) - 1
      /\ i = Len(out) - 1 => out[Len(out)].kind = "Eof"
      /\ eof /\ chars = Len(source)

\* C5 (step part): a call at a quote whose literal is never closed returns
\* UnexpectedEof over the rest of the text and sets eof; the call after an
\* UnexpectedEof returns the Eof token.
C5_UnexpectedEofStep ==
  /\ (ch \in {"\"", "'"} /\ Unclosed(source, chars, ch)) =>
       /\ result' = [tag |-> "Err", kind |-> "UnexpectedEof", text |-> <<>>,
                     span |-> Span(chars, Len(source))]
       /\ eof' /\ chars' = Len(source)
  /\ result.kind = "UnexpectedEof" => (result'.tag = "Ok" /\ result'.kind = "Eof")

\* C5: a text that ends inside a string literal never closed yields the results
\* of the text before the literal, then one Err(UnexpectedEof), which sets eof,
\* then the Eof token on the next call, then None; the literal is not retried.
C5_UnterminatedString == []C5_UnexpectedEofLast /\ [][C5_UnexpectedEofStep]_vars

\* C5 witness: UnexpectedEof for a literal that ends in an escaped quote
\* (as in "\"), then the Eof token.
C5_Witness ==
  /\ Len(out) >= 2
  /\ out[Len(out)].kind = "Eof"
  /\ LET e == out[Len(out) - 1]
     IN  /\ e.kind = "UnexpectedEof"
         /\ e.span.end - e.span.start >= 3
         /\ source[e.span.end] = source[e.span.start + 1]

\* C6 (step part): a call that returns InvalidCharacter(c) consumed c alone,
\* its span is that character, and it left eof as it was; the call after it
\* starts at the next character.
C6_InvalidCharacterStep ==
  /\ result'.kind = "InvalidCharacter" =>
       /\ result' = [tag |-> "Err", kind |-> "InvalidCharacter", text |-> <<ch>>,
                     span |-> Span(chars, chars + 1)]
       /\ chars' = chars + 1 /\ span' = Span(chars, chars + 1)
       /\ eof' = eof /\ ~eof' /\ ~panicked'
  /\ (result.kind = "InvalidCharacter" /\ result'.tag \in {"Ok", "Err"}) =>
       /\ result'.span.start = result.span.end
       /\ (result.span.end < Len(source)) = (result'.kind # "Eof")

\* C6: Err(InvalidCharacter(c)) consumes exactly c, spans exactly c, does not
\* set eof, and the next call resumes at the character after c.
C6_InvalidCharacterResumes == [][C6_InvalidCharacterStep]_vars

\* C6 witness: a token other than Eof was returned right after an
\* InvalidCharacter error.
C6_Witness ==
  \E i \in 1..(Len(out) - 1) :
    /\ out[i].kind = "InvalidCharacter"
    /\ out[i + 1].tag = "Ok" /\ out[i + 1].kind # "Eof"

\* C7: a token that starts with a bare keyword immediately followed by ':' is
\* Ident carrying the keyword text, at whatever offset it starts.
C7_KeywordBeforeColonIsIdent ==
  \A i \in 1..Len(keys) :
    (result.tag \in {"Ok", "Err"} /\ HasAt(source, result.span.start, keys[i].key \o <<":">>)) =>
      (result.tag = "Ok" /\ result.kind = "Ident" /\ result.text = keys[i].key)

\* The end of the run of characters from offset p of s: the first offset at or
\* after p that holds no character, or a character for which Stops holds.
RunEnd(s, p, Stops(_)) ==
  CHOOSE q \in p..Len(s) :
    /\ \A r \in p..(q - 1) : ~Stops(s[r + 1])
    /\ q = Len(s) \/ Stops(s[q + 1])

NotAlphabetic(c) == ~is_alphabetic(c)

IsNewline(c) == c = "\n"

\* The last result is a token or an error that starts at the text w.
StartsWith(w) == result.tag \in {"Ok", "Err"} /\ HasAt(source, result.span.start, w)

\* C8: a token that starts with '#' is Define when `#define` stands there,
\* else Include when `#include` stands there, the span running over the
\* alphabetic characters after the '#'; otherwise the call returns
\* Err(InvalidCharacter('#')) spanning the '#' alone, with only it consumed.
C8_HashDirective ==
  LET p == result.span.start
      run == Span(p, RunEnd(source, p + 1, NotAlphabetic))
  IN  StartsWith(<<"#">>) =>
        /\ chars = result.span.end /\ span = result.span
        /\ IF HasAt(source, p, define_keyword)
           THEN result = [tag |-> "Ok", kind |-> "Define", text |-> <<>>, span |-> run]
           ELSE IF HasAt(source, p, include_keyword)
           THEN result = [tag |-> "Ok", kind |-> "Include", text |-> <<>>, span |-> run]
           ELSE result = [tag |-> "Err", kind |-> "InvalidCharacter", text |-> <<"#">>,
                          span |-> Span(p, p + 1)]

\* C8 witness: `#` before a word that is no directive was returned as an
\* error at an offset other than 0, after which lexing went on.
C8_Witness ==
  \E i \in 2..(Len(out) - 1) :
    /\ out[i].kind = "InvalidCharacter" /\ out[i].text = <<"#">>
    /\ out[i + 1].tag = "Ok" /\ out[i + 1].kind # "Eof"

\* C9 (state part): a token that starts with `//` is a Comment from the first
\* '/' up to, not including, the next newline or the end of the text, and its
\* text is that slice.
C9_LineCommentSpan ==
  LET p == result.span.start
      q == RunEnd(source, p + 2, IsNewline)
  IN  StartsWith(line_opener) =>
        result = [tag |-> "Ok", kind |-> "Comment", text |-> SubSeq(source, p + 1, q),
                  span |-> Span(p, q)]

\* C9 (step part): the newline that ends a line comment starts the Whitespace
\* token returned by the next call.
C9_NewlineStep ==
  (StartsWith(line_opener) /\ result.span.end < Len(source)) =>
    /\ result'.tag = "Ok" /\ result'.kind = "Whitespace"
    /\ result'.span.start = result.span.end
    /\ source[result'.span.start + 1] = "\n"

\* C9: a line comment runs from `//` to just before the next newline (or the
\* end of the text), carries exactly that slice, and the newline is covered by
\* the Whitespace token that follows.
C9_LineComment == []C9_LineCommentSpan /\ [][C9_NewlineStep]_vars

\* C9 witness: a line comment with text after `//`, then the Whitespace token
\* that starts at its newline.
C9_Witness ==
  \E i \in 1..(Len(out) - 1) :
    /\ out[i].kind = "Comment" /\ HasAt(source, out[i].span.start, line_opener)
    /\ Len(out[i].text) > 2
    /\ out[i + 1].kind = "Whitespace" /\ out[i + 1].span.start = out[i].span.end

\* The offsets at or after p where the text w stands in s.
Occurrences(s, p, w) == { j \in p..Len(s) : HasAt(s, j, w) }

Min(S) == CHOOSE x \in S : \A y \in S : x <= y

\* C10: a token that starts with `/*` is a Comment that ends right after the
\* first `*/` that follows the two-character opener.
C10_BlockCommentEnd ==
  LET p == result.span.start
      after == Occurrences(source, p + 2, closer)
  IN  (StartsWith(opener) /\ after # {}) =>
        /\ result.tag = "Ok" /\ result.kind = "Comment"
        /\ result.span = Span(p, Min(after) + 2)

\* C11: when the text ends inside a block comment (a `/*` with no `*/` after
\* it), the call returns Err(UnexpectedEof) and sets eof; it returns no
\* Comment token.
C11_UnterminatedBlockComment ==
  (StartsWith(opener) /\ Occurrences(source, result.span.start + 2, closer) = {}) =>
    /\ result.tag = "Err" /\ result.kind = "UnexpectedEof"
    /\ eof

NotIdentChar(c) == ~(is_alphanumeric(c) \/ c = "_")

\* The last result starts, at offset p, with the bare keyword keys[i].
KeywordAt(i) == StartsWith(keys[i].key)

\* C12 (demotion): a word that starts with a bare keyword and stands right
\* after the text `function` plus one character is returned as Ident over its
\* full run of alphanumeric-or-underscore characters.
C12_DemotedAfterFunction ==
  LET p == result.span.start
      q == RunEnd(source, p, NotIdentChar)
  IN  \A i \in 1..Len(keys) :
        (KeywordAt(i) /\ p >= 9 /\ HasAt(source, p - 9, kw_function)) =>
          result = [tag |-> "Ok", kind |-> "Ident", text |-> SubSeq(source, p + 1, q),
                    span |-> Span(p, q)]

\* C12 (short look-back): with the span starting before offset 9 the
\* look-back is the empty string, so it demotes nothing.
C12_NoLookBackBeforeNine ==
  span.start < 9 => look_back(source, span) = <<>>

\* C12: the `takes` of `function takes` is Ident, by the look-back of
\* len("function") + 1 characters, which is empty before offset 9.
C12_LookBackDemotion == C12_DemotedAfterFunction /\ C12_NoLookBackBeforeNine

\* C12 witness: a keyword right after `function` and one character was
\* returned as Ident.
C12_Witness ==
  /\ result.kind = "Ident"
  /\ result.span.start = 9
  /\ HasAt(source, 0, kw_function)
  /\ \E i \in 1..Len(keys) : KeywordAt(i)

\* C13: a bare keyword k at offset p, ended by a non-alphabetic character or
\* the end of the text, not preceded by `function` plus one character and not
\* followed by ':', is returned as the token of kind k over exactly the
\* keyword text, whatever stands elsewhere in the source.
C13_KeywordClassified ==
  LET p == result.span.start
  IN  \A i \in 1..Len(keys) :
        LET k == keys[i].key
            q == p + Len(k)
        IN  ( /\ KeywordAt(i)
              /\ q = Len(source) \/ ~is_alphabetic(source[q + 1])
              /\ ~(p >= 9 /\ HasAt(source, p - 9, kw_function))
              /\ ~HasAt(source, q, <<":">>) ) =>
              result = [tag |-> "Ok", kind |-> keys[i].kind, text |-> <<>>, span |-> Span(p, q)]

\* The offset after an optional character c at offset p of s.
Skip(s, p, c) == IF HasAt(s, p, <<c>>) THEN p + 1 ELSE p

\* C14: a token that starts with `FREE_STORAGE_POINTER` is one
\* FreeStoragePointer token over the whole run of alphanumeric-or-underscore
\* characters that starts there, then a '(' if one follows, then a ')' if one
\* follows, whatever keyword match or demotion came before in the call.
C14_FreeStoragePointer ==
  LET p == result.span.start
      q == RunEnd(source, p, NotIdentChar)
  IN  StartsWith(fsp) =>
        result = [tag |-> "Ok", kind |-> "FreeStoragePointer", text |-> <<>>,
                  span |-> Span(p, Skip(source, Skip(source, q, "("), ")"))]

\* The offsets after p where quote q stands and is not the second character
\* of an escape pair: where a literal opened by q at p can end.
Closers(s, p, q) ==
  { j \in (p + 1)..(Len(s) - 1) : s[j + 1] = q /\ ~SecondOfPair(s, p, q, j) }

\* C15: a literal opened by quote q ends at the first later q that is not the
\* second character of an escape pair; the token is Str, its span holds both
\* quotes and its text is the characters between them, escapes kept as written.
C15_StringLiteral ==
  LET p == result.span.start
  IN  \A q \in {"\"", "'"} :
        (StartsWith(<<q>>) /\ Closers(source, p, q) # {}) =>
          LET j == Min(Closers(source, p, q))
          IN  result = [tag |-> "Ok", kind |-> "Str", text |-> SubSeq(source, p + 2, j),
                        span |-> Span(p, j + 1)]

\* C15 witness: a double-quoted Str whose text is an escaped double quote.
C15_Witness == result.kind = "Str" /\ result.text = <<"\\", "\"">>

\* C16 (state part): after a call that returned a token, eof is true exactly
\* when the read position is the end of the text.
C16_EofIffNothingLeft == result.tag = "Ok" => (eof <=> chars = Len(source))

\* C16 (step part): eof never goes back to false, and the call that sets it,
\* made with a character standing, still returns the token of that character:
\* not Eof, and ending where the text ends.
C16_EofStep ==
  /\ eof => eof'
  /\ (~eof /\ eof' /\ ch # NoChar /\ result'.tag = "Ok") =>
       (result'.kind # "Eof" /\ result'.span.end = Len(source) /\ ~eof_returned')

\* C16: after next returns a token, eof is true exactly when no character
\* remains, so already after the last token before Eof; the flag leaves the
\* token just produced as it is, and once true it stays true.
C16_EofFlag == []C16_EofIffNothingLeft /\ [][C16_EofStep]_vars

\* C16 witness: the last token before Eof was returned after another token,
\* and eof is already true.
C16_Witness ==
  /\ result.tag = "Ok" /\ result.kind # "Eof" /\ eof /\ ~eof_returned
  /\ Len(out) >= 2 /\ out[1].tag = "Ok"

InBounds(sp) == 0 <= sp.start /\ sp.start <= sp.end /\ sp.end <= Len(source)

\* C17: after any calls of next on any text the lexer's span satisfies
\* start <= end <= length of the text, and so does the span of every token
\* and every error returned.
C17_SpanBounds ==
  /\ InBounds(span)
  /\ InBounds(result.span)
  /\ \A i \in 1..Len(out) : InBounds(out[i].span)

\* C17 witness: a token, an error and the Eof token were returned, the
\* lexer's span standing empty at the end of the text.
C17_Witness ==
  /\ Len(out) >= 3 /\ result.kind = "Eof"
  /\ \E i \in 1..Len(out) : out[i].tag = "Err"
  /\ span = Span(Len(source), Len(source))

\* C18 (state part): a result that starts at a '/' is a Comment token when
\* '/' or '*' stands right after it, and otherwise the Div token spanning
\* that one character.
C18_SlashResult ==
  LET p == result.span.start
  IN  StartsWith(<<"/">>) =>
        IF HasAt(source, p + 1, <<"/">>) \/ HasAt(source, p + 1, <<"*">>)
        THEN result.tag = "Ok" /\ result.kind = "Comment"
        ELSE result = [tag |-> "Ok", kind |-> "Div", text |-> <<>>, span |-> Span(p, p + 1)]

\* C18 (step part): a call made with '/' standing returns a token that starts
\* at that '/'.
C18_SlashStep ==
  ch = "/" => (result'.tag = "Ok" /\ result'.span.start = chars /\ ~panicked')

\* C18: a '/' not followed by '/' or '*', the last character of the text
\* included, yields Div spanning that one character; a '/' followed by '/' or
\* '*' always yields Comment, never Div.
C18_DivOrComment == []C18_SlashResult /\ [][C18_SlashStep]_vars

\* C18 witness: Div for a '/' that is the last character of the text, returned
\* after a block comment.
C18_Witness ==
  /\ result.kind = "Div" /\ result.span.end = Len(source)
  /\ \E i \in 1..Len(out) : out[i].kind = "Comment" /\ HasAt(source, out[i].span.start, opener)

\* C19 (state part): the first result starts at offset 0, each later result
\* starts where the one before it ended, every result but Eof has a non-empty
\* span, and Eof stands at the end of the text.
C19_Tiling ==
  /\ Len(out) >= 1 => out[1].span.start = 0
  /\ \A i \in 1..(Len(out) - 1) : out[i + 1].span.start = out[i].span.end
  /\ \A i \in 1..Len(out) :
       IF out[i].kind = "Eof"
       THEN out[i].span = Span(Len(source), Len(source))
       ELSE out[i].span.end > out[i].span.start

\* C19 (step part): a call that returns a token or an error returns one that
\* starts where the lexer's span ended.
C19_TilingStep == result'.tag \in {"Ok", "Err"} => result'.span.start = span.end

\* C19: the span of each result, token or error, starts where the span of the
\* result before it ended, the first at offset 0, and every result but Eof has
\* a non-empty span: the spans of all results tile the text from 0 to its end.
C19_SpansTile == []C19_Tiling /\ [][C19_TilingStep]_vars

\* C19 witness: the results of a whole text, Eof included, with the error for
\* a stray '#' between two tokens.
C19_Witness ==
  /\ result.kind = "Eof" /\ Len(out) = 4
  /\ out[2].tag = "Err" /\ out[2].text = <<"#">>
  /\ out[1].tag = "Ok" /\ out[3].tag = "Ok"

(***************************************************************************)
(* The consuming methods called one by one on a fresh lexer: consume,      *)
(* reset and seq_consume are public, so seq_consume can be called with a   *)
(* span of any width.  result records the call made: its name, the marker  *)
(* given and the span the call was made with.                              *)
(***************************************************************************)
SeqFrags == { <<"x">>, <<"*">>, <<"/">>, closer }

SeqSources == { Concat(fs) : fs \in UNION { [1..n -> SeqFrags] : n \in 0..MaxFrags } }

\* The markers seq_consume is called with.
Markers == { closer, <<"*">>, <<"x">> }

Call(name, word, sp) == [tag |-> "Call", kind |-> name, text |-> word, span |-> sp]

SeqInit ==
  /\ source \in SeqSources
  /\ chars = 0
  /\ span = Span(0, 0)
  /\ eof = FALSE
  /\ eof_returned = FALSE
  /\ result = Start
  /\ out = <<>>
  /\ panicked = FALSE

\* consume(): one character read, if one remains.
Consume ==
  /\ ~panicked
  /\ LET n == IF peek(source, chars) = NoChar THEN 0 ELSE 1
     IN  /\ chars' = chars + n
         /\ span' = Advance(span, n)
  /\ result' = Call("consume", <<>>, span)
  /\ UNCHANGED <<source, eof, eof_returned, out, panicked>>

\* reset(): the span becomes empty at its end.
Reset ==
  /\ ~panicked
  /\ span' = reset(span)
  /\ result' = Call("reset", <<>>, span)
  /\ UNCHANGED <<source, chars, eof, eof_returned, out, panicked>>

\* seq_consume(word): the characters its loop consumes, or the panic of a
\* window that runs past the end of the text.
SeqConsume ==
  /\ ~panicked
  /\ \E word \in Markers :
       LET k == seq_consume(source, chars, span, word)
       IN  /\ panicked' = (k < 0)
           /\ chars' = IF k < 0 THEN chars ELSE chars + k
           /\ span' = IF k < 0 THEN span ELSE Advance(span, k)
           /\ result' = Call("seq_consume", word, span)
  /\ UNCHANGED <<source, eof, eof_returned, out>>

NextSeq ==
  \/ Consume
  \/ Reset
  \/ SeqConsume

SpecSeq == SeqInit /\ [][NextSeq]_vars

\* Where seq_consume(w) called at read position p is to stop: at the first
\* offset at or after p where w stands, or at the end of the text.
FirstAt(s, p, w) == Min(Occurrences(s, p, w) \cup {Len(s)})

\* C20: seq_consume(marker) returns with the read position right before the
\* first occurrence of the marker at or after the read position it was called
\* at, or at the end of the text when there is none, whatever the width of
\* the span it was called with.
C20_SeqConsumeStops ==
  result.kind = "seq_consume" =>
    /\ ~panicked
    /\ chars = FirstAt(source, result.span.end, result.text)

====
